---- MODULE Spec2Model ----
(***************************************************************************)
(* Model of episode_service.process_episodes: the reconciliation of the    *)
(* jpg objects under tuttle_twins/ML/ with the classification sheet of one *)
(* episode.  Dataframes are sequences of rows, a missing value (None/NaN)  *)
(* is Null, a string is the sequence of its segments between separators.  *)
(***************************************************************************)
EXTENDS Integers, Sequences, FiniteSets, TLC

VARIABLES
    sheet,      \* rows of the episode's google sheet: [img_frame, new_ml_img_class]
    store,      \* keys of the objects under tuttle_twins/ML/
    G,          \* desired rows of the run: [img_frame, img_src, new_ml_key]
    C,          \* the scan the run planned its deletes and moves from
    J1,         \* C joined with G, rows that require action
    C2,         \* the scan the run planned its copies from img_src from
    del_keys,   \* keys handed to the last s3_delete_files call
    src_keys,   \* sources handed to the last s3_copy_files call
    dst_keys,   \* destinations handed to the last s3_copy_files call
    todo,       \* what the store call in progress has not yet issued
    log,        \* store requests issued by the run, in order, with their result
    pc,         \* position of the run in process_episodes
    outcome,    \* how the run ended
    hist,       \* one summary per finished run
    io          \* the call of a function on its own: [fn, arg, res]

vars == <<sheet, store, G, C, J1, C2, del_keys, src_keys, dst_keys, todo, log, pc,
          outcome, hist, io>>

-----------------------------------------------------------------------------
(* Bounds and universe of the model *)

MaxRuns == 2

\* requests of one run that may fail
MaxFailures == 2

\* the number of times a store call attempts one request before it reports it failed
MaxAttempts == 2

Null == <<>>

Frames == { <<"TT", "S01", "E01", "FRM-00-00-08-11">>,
            <<"TT", "S01", "E01", "FRM-00-00-08-12">> }

FrameSeq == << <<"TT", "S01", "E01", "FRM-00-00-08-11">>,
               <<"TT", "S01", "E01", "FRM-00-00-08-12">> >>

\* a frame of another episode
ForeignFrame == <<"TT", "S01", "E02", "FRM-00-00-08-11">>

\* the frames in the order a listing of the bucket returns them
ListedFrameSeq == FrameSeq \o <<ForeignFrame>>

Classes == { <<"Common">>, <<"Rare">> }

ClassSeq == << <<"Common">>, <<"Rare">> >>

\* the class of every object the store holds before the first run
InitClasses == { <<"Common">> }

-----------------------------------------------------------------------------
(* Helpers on sequences *)

RECURSIVE Flatten(_)
Flatten(ss) == IF ss = <<>> THEN <<>> ELSE Head(ss) \o Flatten(Tail(ss))

Range(s) == { s[i] : i \in 1..Len(s) }

\* every sequence without repetition over the elements of s
RECURSIVE Arrangements(_)
Arrangements(S) ==
    {<<>>} \cup UNION { { <<x>> \o t : t \in Arrangements(S \ {x}) } : x \in S }

-----------------------------------------------------------------------------
(* Keys: "tuttle_twins/ML/" + ml_key + "/" + img_frame + ".jpg" *)

EpisodeId == <<"S01", "E01">>

\* percentage_distribution of add_randomized_new_ml_folder_column
NewMlFolders == { <<"train">>, <<"validate">>, <<"test">> }

\* the folders in the order a listing returns them
FolderSeq == << <<"test">>, <<"train">>, <<"validate">> >>

RenderKey(ml_key, img_frame) ==
    <<"tuttle_twins", "ML">> \o ml_key \o <<img_frame, "jpg">>

\* s3_img_src_base + img_frame + ".jpg"
ImgSrc(img_frame) == <<"tuttle_twins", "thumbnails", img_frame, "jpg">>

\* split_key_in_df on one key: the segments between "/" and "." by position
SplitKey(key) ==
    LET ml_folder      == IF Len(key) >= 3 THEN <<key[3]>> ELSE Null
        ml_image_class == IF Len(key) >= 4 THEN <<key[4]>> ELSE Null
    IN  [ ml_key    |-> IF ml_folder # Null /\ ml_image_class # Null
                        THEN ml_folder \o ml_image_class ELSE Null,
          img_frame |-> IF Len(key) >= 5 THEN key[5] ELSE Null ]

\* the keys of the objects of another episode
OtherUnitKeys == { RenderKey(f \o c, ForeignFrame) : f \in {<<"train">>}, c \in Classes }

\* a key under the key of a jpg of another episode, that ends as a jpg of the episode:
\* tuttle_twins/ML/train/Common/TT_S01_E02_FRM-00-00-08-11.jpg/TT_S01_E01_FRM-00-00-08-11.jpg
NestedKeys ==
    { RenderKey(<<"train">> \o c, ForeignFrame) \o <<FrameSeq[1], "jpg">> : c \in InitClasses }

\* every key under tuttle_twins/ML/
AllKeys ==
    { RenderKey(f \o c, fr) : f \in NewMlFolders, c \in Classes, fr \in Frames }
    \cup OtherUnitKeys \cup NestedKeys

\* a key followed by the keys under it
KeysUnder(k) ==
    <<k>> \o (IF k \o <<FrameSeq[1], "jpg">> \in NestedKeys
              THEN << k \o <<FrameSeq[1], "jpg">> >> ELSE <<>>)

\* every key in lexicographic order
ListingOrder ==
    Flatten([a \in 1..Len(FolderSeq) |->
        Flatten([b \in 1..Len(ClassSeq) |->
            Flatten([c \in 1..Len(ListedFrameSeq) |->
                KeysUnder(RenderKey(FolderSeq[a] \o ClassSeq[b], ListedFrameSeq[c]))])])])

\* the segments of a key at which a frame can stand
FrameSegments == { 5, 7 }

\* egrep -e "TT_<season>_<episode>_FRM-.+\.jpg" on one listed key: the pattern is not
\* anchored, a frame of the episode followed by .jpg anywhere in the key matches
EpisodeKeyPattern(k) ==
    \E i \in FrameSegments :
        /\ i < Len(k)
        /\ Len(k[i]) >= 3 /\ <<k[i][2], k[i][3]>> = EpisodeId
        /\ k[i + 1] = "jpg"

\* the listing of tuttle_twins/ML/ filtered by the pattern of the episode
S3LsRecursive(st) ==
    SelectSeq(ListingOrder, LAMBDA k : k \in st /\ EpisodeKeyPattern(k))

\* s3_find_episode_jpg_keys_df: rows [episode_id, img_frame, ml_key]
S3FindEpisodeJpgKeys(st) ==
    LET keys == S3LsRecursive(st)
    IN  [ i \in 1..Len(keys) |->
            [ episode_id |-> EpisodeId,
              img_frame  |-> SplitKey(keys[i]).img_frame,
              ml_key     |-> SplitKey(keys[i]).ml_key ] ]

-----------------------------------------------------------------------------
(* The desired rows *)

\* NewMlKey that gives a row without a class the class Common
NewMlKeyDefaultClass(new_ml_folder, new_ml_img_class) ==
    IF new_ml_folder # Null
    THEN new_ml_folder \o (IF new_ml_img_class # Null THEN new_ml_img_class ELSE <<"Common">>)
    ELSE Null

\* new_ml_key = new_ml_folder / new_ml_img_class, None when either is missing
NewMlKey(new_ml_folder, new_ml_img_class) ==
    IF new_ml_folder # Null /\ new_ml_img_class # Null
    THEN new_ml_folder \o new_ml_img_class ELSE Null

\* find_google_episode_keys_df on the sampled rows with the drawn folders
FindGoogleEpisodeKeys(rows, folders) ==
    [ i \in 1..Len(rows) |->
        [ episode_id |-> EpisodeId,
          img_frame  |-> rows[i].img_frame,
          img_src    |-> ImgSrc(rows[i].img_frame),
          new_ml_key |-> NewMlKey(folders[i], rows[i].new_ml_img_class) ] ]

-----------------------------------------------------------------------------
(* The joins of process_episodes *)

\* Series.ne: a missing value differs from everything, itself included
Ne(a, b) == a = Null \/ b = Null \/ a # b

SameFrame(a, b) == a.episode_id = b.episode_id /\ a.img_frame = b.img_frame

\* J1 = C.merge(G, how='left') or, when C is empty, G with a null ml_key
MergeJ1(c, g) ==
    IF Len(c) > 0
    THEN Flatten([ i \in 1..Len(c) |->
            LET m == SelectSeq(g, LAMBDA r : SameFrame(r, c[i]))
            IN  IF m = <<>>
                THEN << [ episode_id |-> c[i].episode_id, img_frame |-> c[i].img_frame,
                          ml_key |-> c[i].ml_key, img_src |-> Null, new_ml_key |-> Null ] >>
                ELSE [ j \in 1..Len(m) |->
                        [ episode_id |-> c[i].episode_id, img_frame |-> c[i].img_frame,
                          ml_key |-> c[i].ml_key, img_src |-> m[j].img_src,
                          new_ml_key |-> m[j].new_ml_key ] ] ])
    ELSE [ i \in 1..Len(g) |->
            [ episode_id |-> g[i].episode_id, img_frame |-> g[i].img_frame,
              ml_key |-> Null, img_src |-> g[i].img_src, new_ml_key |-> g[i].new_ml_key ] ]

\* keep only rows where ml_key != new_ml_key
RequireAction(j) == SelectSeq(j, LAMBDA r : Ne(r.ml_key, r.new_ml_key))

\* J1_del: ml_key is not null and new_ml_key is null
J1Del(j) == SelectSeq(j, LAMBDA r : r.ml_key # Null /\ r.new_ml_key = Null)

DelKey(r) == RenderKey(r.ml_key, r.img_frame)

\* J1 = J1[~J1['ml_key'].isin(del_keys)]
DropDeleted(j, keys) == SelectSeq(j, LAMBDA r : r.ml_key \notin Range(keys))

\* J1Mv that takes every row with an object, the rows to delete included
J1MvAll(j) == SelectSeq(j, LAMBDA r : r.ml_key # Null)

\* J1_mv: ml_key and new_ml_key are both not null
J1Mv(j) == SelectSeq(j, LAMBDA r : r.ml_key # Null /\ r.new_ml_key # Null)

MvSrcKey(r) == RenderKey(r.ml_key, r.img_frame)

\* MvDstKey rendered from the current placement
MvDstKeyFromMlKey(r) == <<"tuttle_twins", "ML">> \o r.ml_key \o <<r.img_frame, "jpg">>

MvDstKey(r) == RenderKey(r.new_ml_key, r.img_frame)

\* J2 = G2.merge(C2, how='left') or, when C2 is empty, G2 with a null ml_key
MergeJ2(g, c2) ==
    IF Len(c2) > 0
    THEN Flatten([ i \in 1..Len(g) |->
            LET m == SelectSeq(c2, LAMBDA r : SameFrame(r, g[i]))
            IN  IF m = <<>>
                THEN << [ episode_id |-> g[i].episode_id, img_frame |-> g[i].img_frame,
                          new_ml_key |-> g[i].new_ml_key, ml_key |-> Null ] >>
                ELSE [ j \in 1..Len(m) |->
                        [ episode_id |-> g[i].episode_id, img_frame |-> g[i].img_frame,
                          new_ml_key |-> g[i].new_ml_key, ml_key |-> m[j].ml_key ] ] ])
    ELSE [ i \in 1..Len(g) |->
            [ episode_id |-> g[i].episode_id, img_frame |-> g[i].img_frame,
              new_ml_key |-> g[i].new_ml_key, ml_key |-> Null ] ]

\* J3 = J2.merge(G3, how='left') or, when J2 is empty, G with a null ml_key
MergeJ3(j2, g) ==
    IF Len(j2) > 0
    THEN Flatten([ i \in 1..Len(j2) |->
            LET m == SelectSeq(g, LAMBDA r : SameFrame(r, j2[i])
                                             /\ r.new_ml_key = j2[i].new_ml_key)
            IN  IF m = <<>>
                THEN << [ episode_id |-> j2[i].episode_id, img_frame |-> j2[i].img_frame,
                          new_ml_key |-> j2[i].new_ml_key, ml_key |-> j2[i].ml_key,
                          img_src |-> Null ] >>
                ELSE [ j \in 1..Len(m) |->
                        [ episode_id |-> j2[i].episode_id, img_frame |-> j2[i].img_frame,
                          new_ml_key |-> j2[i].new_ml_key, ml_key |-> j2[i].ml_key,
                          img_src |-> m[j].img_src ] ] ])
    ELSE [ i \in 1..Len(g) |->
            [ episode_id |-> g[i].episode_id, img_frame |-> g[i].img_frame,
              new_ml_key |-> g[i].new_ml_key, ml_key |-> Null,
              img_src |-> g[i].img_src ] ]

\* J3Cp for the frames the first scan C lacks only
J3CpOfFirstScan(j3) ==
    SelectSeq(j3, LAMBDA r : r.new_ml_key # Null /\ r.ml_key = Null
                             /\ \A i \in 1..Len(C) : C[i].img_frame # r.img_frame)

\* J3_cp: new_ml_key is not null and ml_key is null
J3Cp(j3) == SelectSeq(j3, LAMBDA r : r.new_ml_key # Null /\ r.ml_key = Null)

CpDstFile(r) == RenderKey(r.new_ml_key, r.img_frame)

\* PlanCp on a desired set whose folders are drawn again
PlanCpRedrawn(g, c2) ==
    LET again(k) == IF k = Null THEN Null
                    ELSE [ k EXCEPT ![1] = IF @ = "train" THEN "validate" ELSE "train" ]
        g2 == [ i \in 1..Len(g) |-> [ g[i] EXCEPT !.new_ml_key = again(@) ] ]
    IN  J3Cp(MergeJ3(RequireAction(MergeJ2(g2, c2)), g2))

\* the rows process_episodes copies from img_src after the scan c2
PlanCp(g, c2) == J3Cp(MergeJ3(RequireAction(MergeJ2(g, c2)), g))


-----------------------------------------------------------------------------
(* The store calls.  s3_delete_files and s3_copy_files issue one request   *)
(* per key, in the order of the list they are given; a request that keeps  *)
(* failing is reported failed and the call goes on with the next key.      *)

Request(phase, op, src, dst) == [ phase |-> phase, op |-> op, src |-> src, dst |-> dst ]

Issued(req, ok) ==
    [ phase |-> req.phase, op |-> req.op, src |-> req.src, dst |-> req.dst, ok |-> ok ]

DeleteRequests(phase, keys) ==
    [ i \in 1..Len(keys) |-> Request(phase, "delete", keys[i], Null) ]

CopyRequests(phase, srcs, dsts) ==
    [ i \in 1..Len(srcs) |-> Request(phase, "copy", srcs[i], dsts[i]) ]

\* the objects under tuttle_twins/ML/ after a request
StoreAfter(st, req, ok) ==
    IF ~ok THEN st
    ELSE IF req.op = "delete" THEN st \ {req.src}
    ELSE st \cup {req.dst}

\* a copy can succeed only if its source exists; the thumbnails always do
CanSucceed(st, req) ==
    req.op = "delete" \/ req.src \in st \/ req.src \notin AllKeys

NFailed(l) == Cardinality({ i \in 1..Len(l) : ~l[i].ok })

Outcomes(st, req, l) ==
    IF ~CanSucceed(st, req) THEN {FALSE}
    ELSE IF NFailed(l) < MaxFailures THEN {TRUE, FALSE} ELSE {TRUE}

\* mv part 2: del_keys = src_keys
MvDelKeys(srcs) == srcs

\* FinalShape that compares the shapes also when C4 has no row
FinalShapeOfAnyScan(c4, g) ==
    IF <<Len(c4), 3>> = <<Len(g), 3>> THEN "shape_eq" ELSE "shape_ne"

\* the final comparison of the shapes of C4 and G2
FinalShape(c4, g) ==
    IF Len(c4) = 0 THEN "raised"
    ELSE IF <<Len(c4), 3>> = <<Len(g), 3>> THEN "shape_eq" ELSE "shape_ne"

Clean(l) == \A i \in 1..Len(l) : l[i].ok

Summary(l, o) == [ clean |-> Clean(l), outcome |-> o ]

-----------------------------------------------------------------------------
(* The run of process_episodes on the episode *)

\* df.sample: the rows at some positions of the sheet, no position twice, in any
\* order
Samples(sh) ==
    { [ i \in 1..Len(p) |-> sh[p[i]] ] : p \in Arrangements(1..Len(sh)) }

SheetRow(f, c) == [ img_frame |-> f, new_ml_img_class |-> c ]

\* a row of a sheet that has no classification column
BareRow(f) == [ img_frame |-> f ]

\* str.upper on the pieces of a frame code
Upper(t) ==
    CASE t = "tt" -> "TT" [] t = "s01" -> "S01" [] t = "e01" -> "E01" [] t = "e02" -> "E02"
      [] OTHER -> t

\* FRAME NUMBER contains "TT_<season>_<episode>_FRM", whatever the case
FrameHasCode(f) ==
    Len(f) >= 4 /\ <<Upper(f[1]), Upper(f[2]), Upper(f[3])>> = <<"TT">> \o EpisodeId

\* the sheet has the classification columns
HasColumns(sh) == \A i \in 1..Len(sh) : "new_ml_img_class" \in DOMAIN sh[i]

\* what makes find_google_episode_keys_df raise on the sampled rows
InputError(sh, rows) ==
    \/ Len(sh) = 0
    \/ \E i \in 1..Len(rows) : ~FrameHasCode(rows[i].img_frame)
    \/ ~HasColumns(sh)

\* the sheets of the episode: a class or none for each frame; a row of another
\* episode; no classification column; no row
Sheets ==
    { [ i \in 1..Len(FrameSeq) |-> SheetRow(FrameSeq[i], cls[i]) ] :
        cls \in [ 1..Len(FrameSeq) -> Classes \cup {Null} ] }
    \cup { << SheetRow(FrameSeq[1], <<"Common">>), SheetRow(ForeignFrame, <<"Common">>) >>,
           [ i \in 1..Len(FrameSeq) |-> BareRow(FrameSeq[i]) ],
           <<>> }

\* the outcomes of a run that planned nothing
NotReconciled == { "skipped", "input_error" }

\* the stores before the first run: at most two objects of a frame
InitStores ==
    { st \in SUBSET { RenderKey(d \o c, f) :
                        d \in NewMlFolders, c \in InitClasses, f \in Frames } :
        \A f \in Frames : Cardinality({ k \in st : k[5] = f }) <= 2 }

\* no function is called on its own
NoCall == [ fn |-> "none", arg |-> <<>>, res |-> <<>> ]

\* the variables of a run
runvars == <<sheet, store, G, C, J1, C2, del_keys, src_keys, dst_keys, todo, log, pc,
             outcome, hist>>

\* no run is in progress
Idle ==
    /\ sheet = <<>> /\ store = {}
    /\ G = <<>> /\ C = <<>> /\ J1 = <<>> /\ C2 = <<>>
    /\ del_keys = <<>> /\ src_keys = <<>> /\ dst_keys = <<>>
    /\ todo = <<>> /\ log = <<>>
    /\ pc = "idle" /\ outcome = "none" /\ hist = <<>>

Init ==
    /\ io = NoCall
    /\ sheet \in Sheets
    /\ store \in InitStores
    /\ G = <<>> /\ C = <<>> /\ J1 = <<>> /\ C2 = <<>>
    /\ del_keys = <<>> /\ src_keys = <<>> /\ dst_keys = <<>>
    /\ todo = <<>> /\ log = <<>>
    /\ pc = "load" /\ outcome = "none" /\ hist = <<>>

\* find_google_episode_keys_df on a sample without rows: new_ml_folder is assigned
\* an empty list, and whether the column then takes '/' (an empty G, the episode is
\* skipped) or is a column of floats (line 153 raises) is up to the pandas at hand
EmptySampleOutcomes == { "skipped", "input_error" }

\* G = find_google_episode_keys_df(episode): it raises on an input error, and an
\* empty G skips the episode
LoadDesired ==
    /\ pc = "load"
    /\ \E rows \in Samples(sheet) :
         IF InputError(sheet, rows)
         THEN /\ G' = <<>>
              /\ pc' = "done"
              /\ outcome' = "input_error"
              /\ hist' = Append(hist, Summary(<<>>, "input_error"))
         ELSE /\ \E folders \in [ 1..Len(rows) -> NewMlFolders ] :
                    G' = FindGoogleEpisodeKeys(rows, folders)
              /\ pc' = IF Len(G') = 0 THEN "done" ELSE "scan1"
              /\ outcome' \in IF Len(G') = 0 THEN EmptySampleOutcomes ELSE {"running"}
              /\ hist' = IF Len(G') = 0 THEN Append(hist, Summary(<<>>, outcome')) ELSE hist
    /\ UNCHANGED <<io, sheet, store, C, J1, C2, del_keys, src_keys, dst_keys, todo, log>>

\* C, J1 and J1_del; the call of s3_delete_files starts when J1_del has rows
PlanDeletes ==
    /\ pc = "scan1"
    /\ C' = S3FindEpisodeJpgKeys(store)
    /\ J1' = RequireAction(MergeJ1(C', G))
    /\ LET j1_del == J1Del(J1')
       IN  /\ del_keys' = [ i \in 1..Len(j1_del) |-> DelKey(j1_del[i]) ]
           /\ todo' = DeleteRequests("del", del_keys')
           /\ pc' = IF Len(j1_del) > 0 THEN "del" ELSE "mv_plan"
    /\ UNCHANGED <<io, sheet, store, G, C2, src_keys, dst_keys, log, outcome, hist>>

\* one request of the store call in progress
IssueNext(after) ==
    /\ todo # <<>>
    /\ \E ok \in Outcomes(store, Head(todo), log) :
         /\ store' = StoreAfter(store, Head(todo), ok)
         /\ log' = Append(log, Issued(Head(todo), ok))
    /\ todo' = Tail(todo)
    /\ pc' = IF Tail(todo) = <<>> THEN after ELSE pc

\* s3_delete_files(keys=del_keys) of the delete phase
DeleteFiles ==
    /\ pc = "del"
    /\ IssueNext("mv_plan")
    /\ UNCHANGED <<io, sheet, G, C, J1, C2, del_keys, src_keys, dst_keys, outcome, hist>>

\* J1 without the deleted rows, J1_mv, src_keys and dst_keys
PlanMoves ==
    /\ pc = "mv_plan"
    /\ J1' = IF Len(del_keys) > 0 THEN DropDeleted(J1, del_keys) ELSE J1
    /\ LET j1_mv == J1Mv(J1')
       IN  /\ src_keys' = [ i \in 1..Len(j1_mv) |-> MvSrcKey(j1_mv[i]) ]
           /\ dst_keys' = [ i \in 1..Len(j1_mv) |-> MvDstKey(j1_mv[i]) ]
           /\ todo' = CopyRequests("mv", src_keys', dst_keys')
           /\ pc' = IF Len(j1_mv) > 0 THEN "mv_copy" ELSE "scan2"
    /\ UNCHANGED <<io, sheet, store, G, C, C2, del_keys, log, outcome, hist>>

\* mv part 1: s3_copy_files(src_keys, dst_keys)
CopyMoved ==
    /\ pc = "mv_copy"
    /\ todo # <<>>
    /\ \E ok \in Outcomes(store, Head(todo), log) :
         /\ store' = StoreAfter(store, Head(todo), ok)
         /\ log' = Append(log, Issued(Head(todo), ok))
    /\ del_keys' = IF Tail(todo) = <<>> THEN MvDelKeys(src_keys) ELSE del_keys
    /\ todo' = IF Tail(todo) = <<>>
               THEN DeleteRequests("mv", MvDelKeys(src_keys)) ELSE Tail(todo)
    /\ pc' = IF Tail(todo) = <<>> THEN "mv_del" ELSE pc
    /\ UNCHANGED <<io, sheet, G, C, J1, C2, src_keys, dst_keys, outcome, hist>>

\* mv part 2 of a run that starts over with the scan while a request has failed
DeleteMovedOrStartOver ==
    /\ pc = "mv_del"
    /\ IssueNext(IF Clean(log') THEN "scan2" ELSE "scan1")
    /\ UNCHANGED <<io, sheet, G, C, J1, C2, del_keys, src_keys, dst_keys, outcome, hist>>

\* mv part 2: s3_delete_files(keys=del_keys)
DeleteMoved ==
    /\ pc = "mv_del"
    /\ IssueNext("scan2")
    /\ UNCHANGED <<io, sheet, G, C, J1, C2, del_keys, src_keys, dst_keys, outcome, hist>>

\* PlanCopies of a run that plans no copy after a run with a failed request
PlanCopiesUnlessFailedBefore ==
    /\ pc = "scan2"
    /\ C2' = S3FindEpisodeJpgKeys(store)
    /\ LET j3_cp == IF hist # <<>> /\ ~hist[Len(hist)].clean THEN <<>> ELSE PlanCp(G, C2')
       IN  /\ src_keys' = IF Len(j3_cp) > 0
                          THEN [ i \in 1..Len(j3_cp) |-> j3_cp[i].img_src ] ELSE src_keys
           /\ dst_keys' = IF Len(j3_cp) > 0
                          THEN [ i \in 1..Len(j3_cp) |-> CpDstFile(j3_cp[i]) ] ELSE dst_keys
           /\ todo' = IF Len(j3_cp) > 0
                      THEN CopyRequests("cp", src_keys', dst_keys') ELSE <<>>
           /\ pc' = IF Len(j3_cp) > 0 THEN "cp" ELSE "verify"
    /\ UNCHANGED <<io, sheet, store, G, C, J1, del_keys, log, outcome, hist>>

\* C2, J2, J3 and J3_cp; the call of s3_copy_files starts when J3_cp has rows
PlanCopies ==
    /\ pc = "scan2"
    /\ C2' = S3FindEpisodeJpgKeys(store)
    /\ LET j3_cp == PlanCp(G, C2')
       IN  /\ src_keys' = IF Len(j3_cp) > 0
                          THEN [ i \in 1..Len(j3_cp) |-> j3_cp[i].img_src ] ELSE src_keys
           /\ dst_keys' = IF Len(j3_cp) > 0
                          THEN [ i \in 1..Len(j3_cp) |-> CpDstFile(j3_cp[i]) ] ELSE dst_keys
           /\ todo' = IF Len(j3_cp) > 0
                      THEN CopyRequests("cp", src_keys', dst_keys') ELSE <<>>
           /\ pc' = IF Len(j3_cp) > 0 THEN "cp" ELSE "verify"
    /\ UNCHANGED <<io, sheet, store, G, C, J1, del_keys, log, outcome, hist>>

\* s3_copy_files(src_keys=img_src, dst_keys=dst_file)
CopyFromSrc ==
    /\ pc = "cp"
    /\ IssueNext("verify")
    /\ UNCHANGED <<io, sheet, G, C, J1, C2, del_keys, src_keys, dst_keys, outcome, hist>>

\* C4 and the comparison of its shape with the shape of G2
Verify ==
    /\ pc = "verify"
    /\ outcome' = FinalShape(S3FindEpisodeJpgKeys(store), G)
    /\ hist' = Append(hist, Summary(log, outcome'))
    /\ pc' = "done"
    /\ UNCHANGED <<io, sheet, store, G, C, J1, C2, del_keys, src_keys, dst_keys, todo, log>>

\* process_episodes is invoked again: nothing of a run is kept but the store
NextRun ==
    /\ pc = "done"
    /\ Len(hist) < MaxRuns
    /\ pc' = "load"
    /\ G' = <<>> /\ C' = <<>> /\ J1' = <<>> /\ C2' = <<>>
    /\ del_keys' = <<>> /\ src_keys' = <<>> /\ dst_keys' = <<>>
    /\ todo' = <<>> /\ log' = <<>>
    /\ outcome' = "none"
    /\ UNCHANGED <<io, sheet, store, hist>>

Next ==
    \/ LoadDesired
    \/ PlanDeletes
    \/ DeleteFiles
    \/ PlanMoves
    \/ CopyMoved
    \/ DeleteMoved
    \/ PlanCopies
    \/ CopyFromSrc
    \/ Verify

\* one invocation of process_episodes
Spec == Init /\ [][Next]_vars

\* the steps of a run in which no request fails
CleanStep == Next /\ Clean(log')

NextTwice ==
    \/ CleanStep
    \/ NextRun

\* successive invocations in which no request fails
SpecTwice == Init /\ [][NextTwice]_vars


\* process_episodes is invoked again and again; the summaries are not kept
Rerun ==
    /\ pc = "done"
    /\ pc' = "load"
    /\ G' = <<>> /\ C' = <<>> /\ J1' = <<>> /\ C2' = <<>>
    /\ del_keys' = <<>> /\ src_keys' = <<>> /\ dst_keys' = <<>>
    /\ todo' = <<>> /\ log' = <<>>
    /\ outcome' = "none" /\ hist' = <<>>
    /\ UNCHANGED <<io, sheet, store>>

\* a sheet with a class for every frame
InitForever ==
    /\ Init
    /\ sheet = [ i \in 1..Len(FrameSeq) |-> SheetRow(FrameSeq[i], <<"Common">>) ]

NextForever ==
    \/ CleanStep
    \/ Rerun

\* runs repeated without end, none of whose requests fails
SpecForever == InitForever /\ [][NextForever]_vars /\ WF_vars(NextForever)

\* another episode is reconciled at the same time: one of its objects appears or goes
OtherUnit ==
    /\ \E k \in OtherUnitKeys : store' = store \cup {k} \/ store' = store \ {k}
    /\ store' # store
    /\ UNCHANGED <<io, sheet, G, C, J1, C2, del_keys, src_keys, dst_keys, todo, log, pc,
                   outcome, hist>>

\* one sheet, and a store that may hold objects of the other episode
InitUnits ==
    /\ io = NoCall
    /\ sheet = << SheetRow(FrameSeq[1], <<"Common">>), SheetRow(FrameSeq[2], Null) >>
    /\ \E st \in InitStores : \E other \in SUBSET (OtherUnitKeys \cup NestedKeys) :
         store = st \cup other
    /\ G = <<>> /\ C = <<>> /\ J1 = <<>> /\ C2 = <<>>
    /\ del_keys = <<>> /\ src_keys = <<>> /\ dst_keys = <<>>
    /\ todo = <<>> /\ log = <<>>
    /\ pc = "load" /\ outcome = "none" /\ hist = <<>>

NextUnits ==
    \/ Next
    \/ OtherUnit

\* one run of the episode while another episode is reconciled
SpecUnits == InitUnits /\ [][NextUnits]_vars

\* the keys of the episode an external writer may put or remove
EpisodeKeys ==
    { RenderKey(d \o c, f) : d \in NewMlFolders, c \in InitClasses, f \in Frames }

\* someone else puts or removes an object of the episode, once, after the
\* planning scan and before the scan of the verification
ExternalWrite ==
    /\ pc \in {"del", "mv_plan", "mv_copy", "mv_del", "scan2", "cp", "verify"}
    /\ io.fn = "none"
    /\ \E k \in EpisodeKeys :
         /\ store' = IF k \in store THEN store \ {k} ELSE store \cup {k}
         /\ io' = [ fn |-> "write", arg |-> k, res |-> <<>> ]
    /\ UNCHANGED <<sheet, G, C, J1, C2, del_keys, src_keys, dst_keys, todo, log, pc,
                   outcome, hist>>

NextWriter ==
    \/ CleanStep
    \/ ExternalWrite

\* one run without failed request, with an external writer
SpecWriter == Init /\ [][NextWriter]_vars

\* sheets with two rows for one frame, of the same or of different classes
InitDuplicates ==
    /\ io = NoCall
    /\ store \in InitStores
    /\ G = <<>> /\ C = <<>> /\ J1 = <<>> /\ C2 = <<>>
    /\ del_keys = <<>> /\ src_keys = <<>> /\ dst_keys = <<>>
    /\ todo = <<>> /\ log = <<>>
    /\ pc = "load" /\ outcome = "none" /\ hist = <<>>
    /\ \E c \in Classes \cup {Null} :
         sheet = << SheetRow(FrameSeq[1], <<"Common">>), SheetRow(FrameSeq[1], c),
                    SheetRow(FrameSeq[1], <<"Rare">>) >>

\* one run on a sheet that lists a frame more than once
SpecDuplicates == InitDuplicates /\ [][Next]_vars


-----------------------------------------------------------------------------
(* The attempts of a store call.  A request that the store fails is        *)
(* attempted again, at most MaxAttempts times in all; the last attempt is  *)
(* the request the call reports, failed or not.                            *)

\* the failed attempts made so far on the request the call is at
Attempts == IF io.fn = "attempt" /\ io.arg[1] = Len(log) THEN io.arg[2] ELSE 0

\* the store fails an attempt that is not the last one allowed
RetryAttempt ==
    /\ pc \in {"del", "mv_copy", "mv_del", "cp"}
    /\ todo # <<>>
    /\ Attempts + 1 < MaxAttempts
    /\ io' = [ fn |-> "attempt", arg |-> <<Len(log), Attempts + 1>>, res |-> <<>> ]
    /\ UNCHANGED runvars

\* the steps of Next leave io alone: a reported request ends its attempts
NextRetry ==
    \/ Next
    \/ RetryAttempt

\* a sheet with a frame to place and a frame without a class
InitRetry ==
    /\ Init
    /\ sheet = << SheetRow(FrameSeq[1], <<"Common">>), SheetRow(FrameSeq[2], Null) >>

SpecRetry == InitRetry /\ [][NextRetry]_vars


-----------------------------------------------------------------------------
(* Successive invocations whose requests may fail *)

\* a sheet that places both frames, one in a class no object has yet, and a store
\* whose objects are in the folder train
InitRuns ==
    /\ Init
    /\ sheet = << SheetRow(FrameSeq[1], <<"Common">>), SheetRow(FrameSeq[2], <<"Rare">>) >>
    /\ \A k \in store : k[3] = "train"

NextRuns ==
    \/ Next
    \/ NextRun

SpecRuns == InitRuns /\ [][NextRuns]_vars


-----------------------------------------------------------------------------
(* The loop of process_episodes over all_episodes: the episode of the      *)
(* model, then another one, whose requests are the changes of its objects. *)

\* the outcomes of a run that ends with an exception
Raising == { "input_error", "raised" }

\* the position of the loop in all_episodes
AtEpisode(n) == [ fn |-> "episode", arg |-> n, res |-> <<>> ]

EpisodeSheets ==
    { << SheetRow(FrameSeq[1], <<"Common">>), SheetRow(FrameSeq[2], Null) >>,
      << SheetRow(FrameSeq[1], Null), SheetRow(FrameSeq[2], Null) >>,
      << SheetRow(FrameSeq[1], <<"Common">>), SheetRow(ForeignFrame, <<"Common">>) >>,
      [ i \in 1..Len(FrameSeq) |-> BareRow(FrameSeq[i]) ],
      <<>> }

InitEpisodes ==
    /\ io = AtEpisode(1)
    /\ sheet \in EpisodeSheets
    /\ \E st \in InitStores : \E other \in SUBSET OtherUnitKeys : store = st \cup other
    /\ G = <<>> /\ C = <<>> /\ J1 = <<>> /\ C2 = <<>>
    /\ del_keys = <<>> /\ src_keys = <<>> /\ dst_keys = <<>>
    /\ todo = <<>> /\ log = <<>>
    /\ pc = "load" /\ outcome = "none" /\ hist = <<>>

\* a loop that goes on with the next episode whatever the outcome of the run
NextEpisodeAfterError ==
    /\ io = AtEpisode(1)
    /\ pc = "done"
    /\ io' = AtEpisode(2)
    /\ UNCHANGED runvars

\* for episode in all_episodes: the next episode starts when the run of this one
\* has ended without an exception
NextEpisode ==
    /\ io = AtEpisode(1)
    /\ pc = "done"
    /\ outcome \notin Raising
    /\ io' = AtEpisode(2)
    /\ UNCHANGED runvars

\* a request of the run of the second episode
LaterEpisode ==
    /\ io = AtEpisode(2)
    /\ OtherUnit

NextEpisodes ==
    \/ Next
    \/ NextEpisode
    \/ LaterEpisode

SpecEpisodes == InitEpisodes /\ [][NextEpisodes]_vars

-----------------------------------------------------------------------------
(* Keys as text.  A text is the sequence of its separators "/", "." and    *)
(* of the pieces between them, so that splitting is computed, not assumed. *)

Separators == { "/", "." }

\* str.split: the segments of a text between the separators seps
RECURSIVE SplitOn(_, _)
SplitOn(text, seps) ==
    IF text = <<>> THEN << <<>> >>
    ELSE LET rest == SplitOn(Tail(text), seps)
         IN  IF Head(text) \in seps
             THEN << <<>> >> \o rest
             ELSE << <<Head(text)>> \o Head(rest) >> \o Tail(rest)

\* str.split('/|\.')
StrSplit(text) == SplitOn(text, Separators)

\* key_cols: the names split_key_in_df has for the segments of a key
KeyCols == 8

\* the labels a classification column of the sheet may hold
ClassTexts ==
    { <<"Common">>, <<"Uncommon">>, <<"Rare">>, <<"Legendary">>,
      <<"Very", ".", "Rare">>, <<"N", "/", "A">>, <<"Rare", "/", "v1", ".", "2">> }

\* new_ml_folder + '/' + new_ml_img_class
MlKeyText(new_ml_folder, new_ml_img_class) == new_ml_folder \o <<"/">> \o new_ml_img_class

FrameText(f) == <<f[1], "_", f[2], "_", f[3], "_", f[4]>>

\* "tuttle_twins/ML/" + ml_key + "/" + img_frame + ".jpg"
KeyText(ml_key, img_frame) ==
    <<"tuttle_twins", "/", "ML", "/">> \o ml_key \o <<"/">> \o img_frame \o <<".", "jpg">>

\* the row of key_df for one key: the segments named by position, None for a
\* column the key has no segment for
KeyRow(text) ==
    LET segs == StrSplit(text)
    IN  [ ml_key    |-> IF Len(segs) >= 4 THEN segs[3] \o <<"/">> \o segs[4] ELSE Null,
          img_frame |-> IF Len(segs) >= 5 THEN segs[5] ELSE Null ]

\* the frame and placement pairs keys are rendered for
Pairs == { <<d, c, FrameText(f)>> : d \in NewMlFolders, c \in ClassTexts, f \in Frames }

RenderPairText(p) == KeyText(MlKeyText(p[1], p[2]), p[3])

\* img_frame_cols: the names split_key_in_df has for the pieces of a frame
FrameCols == 4

\* the pieces of img_frame between "_"; a missing img_frame has none
FramePieces(img_frame) == IF img_frame = Null THEN <<>> ELSE SplitOn(img_frame, {"_"})

\* season_code + episode_code of one img_frame, None when either is missing
EpisodeIdText(img_frame) ==
    LET p == FramePieces(img_frame)
    IN  IF Len(p) >= 3 THEN p[2] \o p[3] ELSE Null

Max(S) == CHOOSE x \in S : \A y \in S : y <= x

\* egrep -e "TT_<season>_<episode>_FRM-.+\.jpg" on the text of one key
EpisodePatternText(text) ==
    \E i \in 1..Len(text) :
        /\ i + 6 <= Len(text)
        /\ SubSeq(text, i, i + 5) = <<"TT", "_", EpisodeId[1], "_", EpisodeId[2], "_">>
        /\ text[i + 6] \in { f[4] : f \in Frames }
        /\ \E j \in (i + 7)..(Len(text) - 1) : text[j] = "." /\ text[j + 1] = "jpg"

\* split_key_in_df on the keys of a listing: the columns are those of the key
\* and of the frame with the most segments, and a name missing for one raises
SplitListing(texts) ==
    LET nkey   == Max({ Len(StrSplit(texts[i])) : i \in 1..Len(texts) })
        frames == [ i \in 1..Len(texts) |-> KeyRow(texts[i]).img_frame ]
        nframe == Max({ Len(FramePieces(frames[i])) : i \in 1..Len(texts) })
    IN  IF nkey > KeyCols \/ nkey < 5 \/ nframe # FrameCols
        THEN [ raised |-> TRUE, rows |-> <<>> ]
        ELSE [ raised |-> FALSE,
               rows   |-> [ i \in 1..Len(texts) |->
                            [ ml_key     |-> KeyRow(texts[i]).ml_key,
                              img_frame  |-> frames[i],
                              decoded_id |-> EpisodeIdText(frames[i]),
                              episode_id |-> EpisodeId ] ] ]

\* split_key_in_df on a listing, for the last of its keys
SplitKeyText(texts) ==
    LET r == SplitListing(texts)
    IN  IF r.raised
        THEN [ raised |-> TRUE, ml_key |-> Null, img_frame |-> Null, listed |-> Len(texts) ]
        ELSE [ raised    |-> FALSE,
               ml_key    |-> r.rows[Len(texts)].ml_key,
               img_frame |-> r.rows[Len(texts)].img_frame,
               listed    |-> Len(texts) ]

\* s3_find_episode_jpg_keys_df on the keys the bucket holds, as text
ScanListingText(texts) ==
    LET listed == SelectSeq(texts, EpisodePatternText)
    IN  IF Len(listed) = 0 THEN [ raised |-> FALSE, rows |-> <<>> ]
        ELSE SplitListing(listed)

KeyOfFrame(d, c, f) == KeyText(MlKeyText(d, c), FrameText(f))

\* keys of the bucket that are not "tuttle_twins/ML/<folder>/<class>/<frame>.jpg"
\* of the episode: another folder, a segment less, a segment more, another
\* episode, a frame of the episode after the frame of another, too many segments
OddKeys ==
    { KeyOfFrame(<<"deleteme">>, <<"Common">>, FrameSeq[1]),
      <<"tuttle_twins", "/", "ML", "/", "train", "/">> \o FrameText(FrameSeq[1]) \o <<".", "jpg">>,
      KeyOfFrame(<<"train">>, <<"Common", "/", "old">>, FrameSeq[1]),
      KeyOfFrame(<<"train">>, <<"Common">>, ForeignFrame),
      KeyOfFrame(<<"train">>, <<"Common">>, ForeignFrame) \o <<"/">> \o FrameText(FrameSeq[1])
          \o <<".", "jpg">>,
      KeyOfFrame(<<"train">>, <<"a", "/", "b", ".", "c", "/", "d">>, FrameSeq[1]) }

GoodKeys ==
    { KeyOfFrame(<<"train">>, <<"Common">>, FrameSeq[1]),
      KeyOfFrame(<<"test">>, <<"Rare">>, FrameSeq[2]) }

\* what the bucket holds under tuttle_twins/ML/: one key, or a key after a good one
Listings ==
    { <<k>> : k \in GoodKeys \cup OddKeys }
    \cup { <<g, k>> : g \in GoodKeys, k \in OddKeys }

DrawListing ==
    /\ io.fn = "none"
    /\ \E l \in Listings : io' = [ fn |-> "listing", arg |-> l, res |-> <<>> ]
    /\ UNCHANGED runvars

\* the scan of the episode on the listing
ScanListing ==
    /\ io.fn = "listing"
    /\ io' = [ fn |-> "scanned", arg |-> io.arg, res |-> ScanListingText(io.arg) ]
    /\ UNCHANGED runvars

\* a cell of a classification column: missing, or a text that may be empty
Cell(missing, text) == [ missing |-> missing, text |-> text ]

Cells ==
    { Cell(TRUE, <<>>), Cell(FALSE, <<>>), Cell(FALSE, <<" ">>),
      Cell(FALSE, <<"Common">>), Cell(FALSE, <<"Rare">>) }

\* column.str.len() > 0: false for a missing cell and for the empty text
StrLenPositive(cell) == ~cell.missing /\ Len(cell.text) > 0

\* new_ml_img_class with SUPERVISED CLASSIFICATION looked at first
NewMlImgClassSupervisedFirst(jonny, supervised, unsupervised) ==
    IF StrLenPositive(supervised) THEN supervised.text
    ELSE IF StrLenPositive(jonny) THEN jonny.text
    ELSE IF StrLenPositive(unsupervised) THEN unsupervised.text
    ELSE Null

\* new_ml_img_class: the nested np.where over JONNY's RECLASSIFICATION,
\* SUPERVISED CLASSIFICATION and UNSUPERVISED CLASSIFICATION
NewMlImgClass(jonny, supervised, unsupervised) ==
    IF StrLenPositive(jonny) THEN jonny.text
    ELSE IF StrLenPositive(supervised) THEN supervised.text
    ELSE IF StrLenPositive(unsupervised) THEN unsupervised.text
    ELSE Null

\* a row of the sheet with its three classification cells
DrawCells ==
    /\ io.fn = "none"
    /\ \E j \in Cells, s \in Cells, u \in Cells :
         io' = [ fn |-> "cells", arg |-> <<j, s, u>>, res |-> <<>> ]
    /\ UNCHANGED runvars

\* the class of the row
ClassOfCells ==
    /\ io.fn = "cells"
    /\ io' = [ fn |-> "class", arg |-> io.arg,
               res |-> NewMlImgClass(io.arg[1], io.arg[2], io.arg[3]) ]
    /\ UNCHANGED runvars

DrawPair ==
    /\ io.fn = "none"
    /\ \E p \in Pairs : io' = [ fn |-> "pair", arg |-> p, res |-> <<>> ]
    /\ UNCHANGED runvars

\* the key of a desired row is rendered
RenderPair ==
    /\ io.fn = "pair"
    /\ io' = [ fn |-> "render", arg |-> io.arg, res |-> RenderPairText(io.arg) ]
    /\ UNCHANGED runvars

\* the rendered key comes back in a listing, alone or after another key of the
\* episode, and the listing is split
ParseRendered ==
    /\ io.fn = "render"
    /\ \E before \in {<<>>} \cup { <<g>> : g \in GoodKeys } :
         io' = [ fn |-> "parse", arg |-> io.arg, res |-> SplitKeyText(before \o <<io.res>>) ]
    /\ UNCHANGED runvars

InitKeys == Idle /\ io = NoCall

NextKeys ==
    \/ DrawPair
    \/ RenderPair
    \/ ParseRendered
    \/ DrawListing
    \/ ScanListing
    \/ DrawCells
    \/ ClassOfCells

\* keys rendered and split on their own
SpecKeys == InitKeys /\ [][NextKeys]_vars

-----------------------------------------------------------------------------
(* s3_utils: upload and download of a file.  A file is the sequence of its *)
(* bytes, a bucket the set of its objects [key, body].                     *)

\* the contents of the local file: empty, text, line ends, bytes that are no text
FileContents == { <<>>, <<72, 10>>, <<72, 13, 10>>, <<13>>, <<255, 0, 10>> }

UpPaths == { <<"tmp", "test_up.txt">>, <<"tmp", "a", "test_up.txt">>, <<"test_up.txt">> }

Channels == { <<"tuttle_twins", "manifests">>, <<"tuttle_twins">> }

\* os.path.basename
Basename(path) == <<path[Len(path)]>>

\* key = channel + "/" + up_file
UploadKey(up_path, channel) == channel \o Basename(up_path)

\* a read in text mode: every line end becomes a line feed
RECURSIVE ReadText(_)
ReadText(bytes) ==
    IF bytes = <<>> THEN <<>>
    ELSE IF Head(bytes) = 13
         THEN <<10>> \o ReadText(IF Len(bytes) >= 2 /\ bytes[2] = 10
                                 THEN Tail(Tail(bytes)) ELSE Tail(bytes))
         ELSE <<Head(bytes)>> \o ReadText(Tail(bytes))

\* open(up_path, "rb"): the bytes as they are
ReadBinary(bytes) == bytes

\* Bucket.put_object(Key=key, Body=data): the object of the key is replaced
PutObject(bucket, key, body) ==
    { o \in bucket : o.key # key } \cup { [ key |-> key, body |-> body ] }

\* Bucket.download_file(key, dn_path): the body of the object of the key
DownloadFile(bucket, key) == (CHOOSE o \in bucket : o.key = key).body

\* a local file, a channel, and what the bucket holds before the upload
PickFile ==
    /\ io.fn = "none"
    /\ \E up_path \in UpPaths, bytes \in FileContents, channel \in Channels,
          old \in { {}, { [ key |-> <<"tuttle_twins", "test_up.txt">>, body |-> <<1>> ] } } :
         io' = [ fn  |-> "file",
                 arg |-> [ up_path |-> up_path, bytes |-> bytes, channel |-> channel ],
                 res |-> [ bucket |-> old, dn_bytes |-> <<>> ] ]
    /\ UNCHANGED runvars

S3UploadTextFile ==
    /\ io.fn = "file"
    /\ io' = [ io EXCEPT
                 !.fn = "uploaded",
                 !.res.bucket = PutObject(io.res.bucket,
                                          UploadKey(io.arg.up_path, io.arg.channel),
                                          ReadBinary(io.arg.bytes)) ]
    /\ UNCHANGED runvars

\* the download of key = channel + "/" + up_file
S3DownloadTextFile ==
    /\ io.fn = "uploaded"
    /\ io' = [ io EXCEPT
                 !.fn = "downloaded",
                 !.res.dn_bytes = DownloadFile(io.res.bucket,
                                               UploadKey(io.arg.up_path, io.arg.channel)) ]
    /\ UNCHANGED runvars

\* key.startswith(p), and p in key
StartsWith(text, p) == Len(p) <= Len(text) /\ SubSeq(text, 1, Len(p)) = p

Contains(text, p) ==
    \E i \in 0..(Len(text) - Len(p)) : SubSeq(text, i + 1, i + Len(p)) = p

\* keys of the bucket: a manifest, one with the prefix inside its name, one with
\* the suffix inside its name, another file, and a manifest of another dir
ListedKeys ==
    { <<"manifests", "/", "S01E01-manifest", "-2022", ".jl">>,
      <<"manifests", "/", "old-", "S01E01-manifest", ".jl">>,
      <<"manifests", "/", "S01E01-manifest", ".jl", ".bak">>,
      <<"manifests", "/", "S02E01", ".json">>,
      <<"manifests-old", "/", "S01E01-manifest", ".jl">> }

\* list_objects_v2(Bucket, Prefix): the keys that start with Prefix; the response
\* has "Contents" only when there is one
ListObjectsV2(keys, prefix) == { k \in keys : StartsWith(k, prefix) }

\* s3_list_files: num_found, or the KeyError of response["Contents"]
S3ListFilesResult(keys, dir, prefix, suffix) ==
    LET d        == IF dir[Len(dir)] = "/" THEN dir ELSE dir \o <<"/">>
        contents == ListObjectsV2(keys, d)
    IN  IF contents = {}
        THEN [ raised |-> TRUE, num_found |-> 0 ]
        ELSE [ raised |-> FALSE,
               num_found |-> Cardinality({ k \in contents :
                                 /\ prefix = Null \/ Contains(k, prefix)
                                 /\ suffix = Null \/ Contains(k, suffix) }) ]

\* a bucket and the arguments of a call of s3_list_files
PickListing ==
    /\ io.fn = "none"
    /\ \E keys \in SUBSET ListedKeys,
          dir \in { <<"manifests">>, <<"manifests", "/">> },
          prefix \in { Null, <<"S01E01-manifest">> },
          suffix \in { Null, <<".jl">> } :
         io' = [ fn  |-> "ls",
                 arg |-> [ keys |-> keys, dir |-> dir, prefix |-> prefix, suffix |-> suffix ],
                 res |-> <<>> ]
    /\ UNCHANGED runvars

S3ListFiles ==
    /\ io.fn = "ls"
    /\ io' = [ io EXCEPT
                 !.fn = "listed",
                 !.res = S3ListFilesResult(io.arg.keys, io.arg.dir, io.arg.prefix,
                                           io.arg.suffix) ]
    /\ UNCHANGED runvars

\* s3_client.copy_object: the object of dst_key becomes a copy of the object of
\* src_key; a source that does not exist is an error of the client
CopyObject(bucket, src_key, dst_key) ==
    IF \E o \in bucket : o.key = src_key
    THEN [ raised |-> FALSE,
           bucket |-> PutObject(bucket, dst_key, DownloadFile(bucket, src_key)) ]
    ELSE [ raised |-> TRUE, bucket |-> bucket ]

\* the keys s3_copy_file is called with: a thumbnail, and a key under tuttle_twins/ML/
CopySrcKeys == { ImgSrc(f) : f \in Frames }

CopyDstKeys == { <<"tuttle_twins", "ML", "deleteme", "test", "jpg">> } \cup CopySrcKeys

\* a bucket and the arguments of a call of s3_copy_file
PickCopy ==
    /\ io.fn = "none"
    /\ \E src_key \in CopySrcKeys, dst_key \in CopyDstKeys,
          keys \in SUBSET (CopySrcKeys \cup CopyDstKeys) :
         io' = [ fn  |-> "copy",
                 arg |-> [ src_key |-> src_key, dst_key |-> dst_key ],
                 res |-> [ raised |-> FALSE,
                           bucket |-> { [ key |-> k, body |-> k[3] ] : k \in keys } ] ]
    /\ UNCHANGED runvars

S3CopyFile ==
    /\ io.fn = "copy"
    /\ io' = [ io EXCEPT
                 !.fn = "copied",
                 !.res = CopyObject(io.res.bucket, io.arg.src_key, io.arg.dst_key) ]
    /\ UNCHANGED runvars

NextFiles ==
    \/ PickFile
    \/ S3UploadTextFile
    \/ S3DownloadTextFile
    \/ PickListing
    \/ S3ListFiles
    \/ PickCopy
    \/ S3CopyFile

\* an upload followed by the download of its key
SpecFiles == InitKeys /\ [][NextFiles]_vars

-----------------------------------------------------------------------------
(* What the claims speak of *)

FrameOfKey(key) == key[5]

\* the frame a request acts on
FrameOfRequest(req) == IF req.op = "delete" THEN FrameOfKey(req.src) ELSE FrameOfKey(req.dst)

\* the keys at which the desired rows of the run place their frames
DesiredKeys == { RenderKey(r.new_ml_key, r.img_frame) : r \in { x \in Range(G) : x.new_ml_key # Null } }

\* the frames with a desired placement
DesiredFrames == { r.img_frame : r \in { x \in Range(G) : x.new_ml_key # Null } }

\* the rows of a scan for one frame
RowsOf(scan, f) == { r \in Range(scan) : r.img_frame = f }

Planned == pc \notin {"load", "scan1"}

RunEnded == pc = "done"

\* a run that follows a finished run
SecondRun == (Len(hist) = 1 /\ pc # "done") \/ Len(hist) = 2

-----------------------------------------------------------------------------
(* C1: the delete of the source key of a Move is issued only after the     *)
(* copy of that source to its destination was acknowledged successful;     *)
(* after a failed copy the source is not deleted in that run.              *)
C1_DeleteOnlyAfterCopied ==
    \A j \in 1..Len(log) :
        (log[j].phase = "mv" /\ log[j].op = "delete")
        => \E i \in 1..(j - 1) :
              /\ log[i].phase = "mv" /\ log[i].op = "copy"
              /\ log[i].src = log[j].src /\ log[i].ok

(* C2: in every state of a run, a frame that had an object in the store    *)
(* when the run started and has a desired placement still has an object,   *)
(* at its source key or at its destination key.                            *)
C2_MoveKeepsAnObject ==
    Planned =>
        \A f \in DesiredFrames :
            RowsOf(C, f) # {} => \E k \in store : FrameOfKey(k) = f

(* C3: every frame is the subject of one action per run: the requests of a *)
(* run for one frame all belong to one of Delete, Move and Create.         *)
C3_OneActionPerFrame ==
    \A i, j \in 1..Len(log) :
        FrameOfRequest(log[i]) = FrameOfRequest(log[j]) => log[i].phase = log[j].phase

(* C4: a run that follows a run of the unit, neither skipped and neither   *)
(* with a failed request, issues no copy and no delete.                    *)
C4_SecondRunAllNoOp ==
    (SecondRun /\ hist[1].clean /\ hist[1].outcome \notin NotReconciled /\ outcome \notin NotReconciled
        /\ Clean(log))
    => log = <<>>


(* C5: after a run in which no request fails and that no error ended, the  *)
(* store holds, for every frame with a desired placement, exactly the      *)
(* object at its desired key, and no other object of the unit.             *)
C5_StoreIsDesired ==
    (RunEnded /\ Clean(log) /\ outcome # "input_error") => store = DesiredKeys

(* C6: the verification reports the shapes equal (the unit converged) only *)
(* when the final scan equals the desired rows frame by frame.             *)
C6_ConvergedOnlyWhenEqual ==
    (RunEnded /\ outcome = "shape_eq") => store = DesiredKeys

(* C7: a frame whose single object is at its desired key gets NoOp: the    *)
(* run issues no copy to and no delete of that key.                        *)
C7_InPlaceIsUntouched ==
    Planned =>
        \A c \in Range(C) :
            ( /\ Cardinality(RowsOf(C, c.img_frame)) = 1
              /\ \E g \in Range(G) : g.img_frame = c.img_frame /\ g.new_ml_key = c.ml_key )
            => \A i \in 1..Len(log) :
                  /\ ~(log[i].op = "copy" /\ log[i].dst = RenderKey(c.ml_key, c.img_frame))
                  /\ ~(log[i].op = "delete" /\ log[i].src = RenderKey(c.ml_key, c.img_frame))

DeletesIssued == pc \notin {"load", "scan1", "del"}

\* the delete requests of the delete phase for one key
DelRequests(key) ==
    { i \in 1..Len(log) : log[i].phase = "del" /\ log[i].op = "delete" /\ log[i].src = key }

UndesiredGetDelete ==
    DeletesIssued =>
        \A c \in Range(C) :
            c.img_frame \notin DesiredFrames
            => Cardinality(DelRequests(RenderKey(c.ml_key, c.img_frame))) = 1

(* C8: every frame of actual without a desired placement gets a Delete of  *)
(* its key and is gone after a run without failure that no error ended,    *)
(* also when the desired set is empty.                                     *)
C8_UndesiredDeleted ==
    /\ UndesiredGetDelete
    /\ (RunEnded /\ Clean(log) /\ outcome # "input_error")
         => \A k \in store : FrameOfKey(k) \in DesiredFrames

MovesIssued == pc \in {"scan2", "cp", "verify"} \/ (pc = "done" /\ outcome \notin NotReconciled)

\* the requests of one phase and kind for one frame
FrameRequests(phase, op, f) ==
    { i \in 1..Len(log) :
        log[i].phase = phase /\ log[i].op = op /\ FrameOfRequest(log[i]) = f }

\* the frames with one object in the planning scan and another desired placement
Misplaced ==
    { f \in DesiredFrames :
        /\ Cardinality(RowsOf(C, f)) = 1
        /\ \A c \in RowsOf(C, f) : \A g \in RowsOf(G, f) : c.ml_key # g.new_ml_key }

ActualKey(f) == LET c == CHOOSE c \in RowsOf(C, f) : TRUE IN RenderKey(c.ml_key, f)

DesiredKey(f) == LET g == CHOOSE g \in RowsOf(G, f) : TRUE IN RenderKey(g.new_ml_key, f)

MovedOk(f) ==
    \A i \in FrameRequests("mv", "copy", f) \cup FrameRequests("mv", "delete", f) : log[i].ok

(* C9: a frame whose single actual placement differs from its desired      *)
(* placement gets exactly one Move, a copy from its actual key to its      *)
(* desired key followed by a delete of the actual key; after a successful  *)
(* Move the object is at the desired key and no longer at the actual key.  *)
C9_OneMovePerMisplacedFrame ==
    MovesIssued =>
        \A f \in Misplaced :
            /\ Cardinality(FrameRequests("mv", "copy", f)) = 1
            /\ Cardinality(FrameRequests("mv", "delete", f)) = 1
            /\ FrameRequests("del", "delete", f) = {}
            /\ \A i \in FrameRequests("mv", "copy", f) :
                  /\ log[i].src = ActualKey(f) /\ log[i].dst = DesiredKey(f)
                  /\ \A j \in FrameRequests("mv", "delete", f) :
                        i < j /\ log[j].src = ActualKey(f)
            /\ MovedOk(f) => (DesiredKey(f) \in store /\ ActualKey(f) \notin store)

C9_Witness ==
    /\ pc = "scan2"
    /\ \E f \in Misplaced :
          /\ MovedOk(f)
          /\ ActualKey(f)[4] # DesiredKey(f)[4]
          /\ DesiredKey(f) \in store

CopiesIssued == pc = "verify" \/ (pc = "done" /\ outcome \notin NotReconciled)

(* C10: a frame with a desired placement and no object gets exactly one    *)
(* Create, a copy of its img_src to its desired key; no Create is issued   *)
(* for a frame that has an object.                                         *)
C10_CreateOnlyForAbsent ==
    CopiesIssued =>
        /\ \A f \in DesiredFrames :
              RowsOf(C2, f) = {}
              => /\ Cardinality(FrameRequests("cp", "copy", f)) = 1
                 /\ \A i \in FrameRequests("cp", "copy", f) :
                       log[i].src = ImgSrc(f) /\ log[i].dst = DesiredKey(f)
        /\ \A i \in 1..Len(log) :
              log[i].phase = "cp" => RowsOf(C2, FrameOfRequest(log[i])) = {}


\* a copy from the thumbnails of the episode
IsCreate(r) == r.op = "copy" /\ r.src \notin AllKeys

\* a copy from a key under tuttle_twins/ML/
IsMoveCopy(r) == r.op = "copy" /\ r.src \in AllKeys

\* a delete of an object whose frame has no desired placement
IsUndesiredDelete(r) == r.op = "delete" /\ FrameOfKey(r.src) \notin DesiredFrames

\* the delete of the source of an earlier move copy
IsMoveDelete(l, j) ==
    l[j].op = "delete" /\ \E i \in 1..(j - 1) : IsMoveCopy(l[i]) /\ l[i].src = l[j].src

(* C11: in the run of a unit every Delete of a frame without a desired     *)
(* placement is issued before any copy of a Move, and every request of a   *)
(* Move (copy and delete of the source) before any copy of a Create.       *)
C11_DeletesThenMovesThenCreates ==
    \A i, j \in 1..Len(log) :
        /\ (IsUndesiredDelete(log[i]) /\ IsMoveCopy(log[j])) => i < j
        /\ ((IsMoveCopy(log[i]) \/ IsMoveDelete(log, i)) /\ IsCreate(log[j])) => i < j
        /\ (log[i].phase = "del" /\ log[j].phase # "del") => i < j
        /\ (log[i].phase = "mv" /\ log[j].phase = "cp") => i < j

C11_Witness ==
    \E i, j, k \in 1..Len(log) :
        /\ IsUndesiredDelete(log[i]) /\ IsMoveCopy(log[j]) /\ IsCreate(log[k])
        /\ \E d \in 1..Len(log) : IsMoveDelete(log, d)
        /\ i < j /\ j < k


(* C12: splitting the key rendered for a frame and a placement gives back  *)
(* that frame and that placement, and two different pairs of frame and     *)
(* placement never render to the same key.                                 *)
C12_RenderParseInverse ==
    /\ io.fn = "parse" =>
          /\ ~io.res.raised
          /\ io.res.ml_key = MlKeyText(io.arg[1], io.arg[2])
          /\ io.res.img_frame = io.arg[3]
    /\ io.fn = "render" =>
          \A q \in Pairs : q # io.arg => RenderPairText(q) # io.res


\* the requests of one phase and kind that failed
FailedRequests(phase, op) ==
    { i \in 1..Len(log) : log[i].phase = phase /\ log[i].op = op /\ ~log[i].ok }

\* num_files_copied = len(src_keys) of the copy from img_src
NumFilesCopied == Cardinality({ i \in 1..Len(log) : log[i].phase = "cp" })

\* the failed copies from img_src of frames that had no object
FailedCreates ==
    { i \in FailedRequests("cp", "copy") : RowsOf(C2, FrameOfRequest(log[i])) = {} }

(* C13: when the Create of a frame fails, the run does not report the unit *)
(* converged and does not count the frame among the files copied.          *)
C13_FailedCreateIsDrifted ==
    (RunEnded /\ FailedCreates # {}) =>
        /\ outcome # "shape_eq"
        /\ NumFilesCopied =
              Cardinality({ i \in 1..Len(log) : log[i].phase = "cp" /\ log[i].ok })

\* the requests of one phase and kind in the log
PhaseRequests(phase, op) ==
    { i \in 1..Len(log) : log[i].phase = phase /\ log[i].op = op }

\* num_files_deleted = len(del_keys) of the delete phase
NumFilesDeleted == Cardinality(PhaseRequests("del", "delete"))

\* num_files_moved = len(del_keys) of the move phase
NumFilesMoved == Cardinality(PhaseRequests("mv", "delete"))

\* every request of every store call of the run is issued, failed or not
EveryRequestIssued ==
    outcome \notin NotReconciled =>
        /\ DeletesIssued => NumFilesDeleted = Len(J1Del(J1))
        /\ MovesIssued =>
              /\ Cardinality(PhaseRequests("mv", "copy")) = Len(J1Mv(J1))
              /\ NumFilesMoved = Len(J1Mv(J1))
        /\ CopiesIssued => NumFilesCopied = Len(PlanCp(G, C2))

\* the files of a frame whose request failed are not reported deleted, moved or copied
FailedNotReportedDone ==
    RunEnded =>
        /\ NumFilesDeleted = Cardinality(PhaseRequests("del", "delete"))
                             - Cardinality(FailedRequests("del", "delete"))
        /\ NumFilesMoved = Cardinality({ i \in PhaseRequests("mv", "delete") :
                               /\ log[i].ok
                               /\ \E j \in PhaseRequests("mv", "copy") :
                                     log[j].src = log[i].src /\ log[j].ok })
        /\ NumFilesCopied = Cardinality(PhaseRequests("cp", "copy"))
                            - Cardinality(FailedRequests("cp", "copy"))

(* C14: a failed delete or copy does not abort the run: every remaining    *)
(* request of the unit is still issued, and the run reports the frames of  *)
(* the failed requests as failed, not as deleted, moved or copied.         *)
C14_FailureIsPerFrame ==
    EveryRequestIssued /\ FailedNotReportedDone


(* C15: when the sheet of the unit has an input error (no row, a           *)
(* classification column missing, a row whose frame code is not of the     *)
(* unit), the run issues no copy and no delete.                            *)
C15_InputErrorBeforeAnyRequest ==
    InputError(sheet, sheet) => log = <<>>


(* C16: with the sheet and the store left alone and no request failing,    *)
(* repeated runs reach a run that issues no copy and no delete, and no     *)
(* later run issues one.                                                   *)
C16_RunsReachAllNoOp ==
    <>[](log = <<>>)


\* the objects of the episode and the objects of other episodes
UnitKeys(st) == { k \in st : FrameHasCode(FrameOfKey(k)) }

OtherKeys(st) == st \ UnitKeys(st)

\* the keys a request reads or writes under tuttle_twins/ML/
RequestKeys(r) == { k \in {r.src, r.dst} : k \in AllKeys }

(* C17: the run of a unit lists, copies to and deletes only keys of its    *)
(* own frames: its steps leave the objects of other units as they are, and *)
(* what another unit does to its objects changes nothing of what the run   *)
(* lists, so that the two commute in every interleaving.                   *)
C17_UnitsAreIsolated ==
    [][ /\ log' # log =>
             /\ OtherKeys(store') = OtherKeys(store)
             /\ \A k \in RequestKeys(log'[Len(log')]) : FrameHasCode(FrameOfKey(k))
        /\ \A r \in Range(C') \cup Range(C2') : FrameHasCode(r.img_frame)
        /\ (log' = log /\ store' # store) =>
             /\ S3FindEpisodeJpgKeys(store') = S3FindEpisodeJpgKeys(store)
             /\ UnitKeys(store') = UnitKeys(store) ]_vars

(* C18: when an external writer adds or removes an object of the unit      *)
(* between the planning scan and the scan of the verification, and the     *)
(* store then differs from desired for a frame no request failed on, the   *)
(* run does not report the unit converged.                                 *)
C18_ExternalWriteIsNotConverged ==
    (RunEnded /\ io.fn = "write" /\ Clean(log) /\ store # DesiredKeys)
        => outcome # "shape_eq"


(* C19: a file uploaded under channel/<file name> and then downloaded from *)
(* that key, with no other write to the key in between, comes back with    *)
(* the content of the uploaded file.                                       *)
C19_UploadDownloadRoundTrip ==
    io.fn = "downloaded" =>
        /\ io.res.dn_bytes = io.arg.bytes
        /\ Cardinality({ o \in io.res.bucket :
                           o.key = UploadKey(io.arg.up_path, io.arg.channel) }) = 1

C19_Witness ==
    /\ io.fn = "downloaded"
    /\ io.arg.bytes = <<72, 13, 10>> /\ io.res.dn_bytes = <<72, 13, 10>>
    /\ [ key |-> <<"tuttle_twins", "test_up.txt">>, body |-> <<72, 13, 10>> ] \in io.res.bucket


\* the desired rows hold two rows for one frame
DuplicateDesired ==
    \E i, j \in 1..Len(G) : i # j /\ G[i].img_frame = G[j].img_frame

(* C20: when the desired rows of the unit hold two records for one frame,  *)
(* the run fails with an input error and issues no copy and no delete.     *)
C20_DuplicateFrameIsInputError ==
    DuplicateDesired => (log = <<>> /\ (RunEnded => outcome = "input_error"))


\* the frames the planning scan lists under two placements
ListedTwice == { f \in Frames : Cardinality(RowsOf(C, f)) >= 2 }

\* the key of the row of a frame that the planning scan lists last
LastListedKey(f) ==
    LET last == CHOOSE i \in 1..Len(C) :
                    C[i].img_frame = f /\ \A j \in (i + 1)..Len(C) : C[j].img_frame # f
    IN  RenderKey(C[last].ml_key, f)

(* C21: when the scan lists a frame under two placements the run goes on   *)
(* with the record listed last as the only actual record of the frame: no  *)
(* delete and no move is issued for the object listed before it.           *)
C21_LastListedIsTheActualRecord ==
    \A f \in ListedTwice :
        \A i \in 1..Len(log) :
            (log[i].phase \in {"del", "mv"} /\ FrameOfRequest(log[i]) = f)
            => log[i].src = LastListedKey(f)


\* a key that is not base/<train|validate|test>/<class>/<frame of the unit>.jpg
Malformed(text) ==
    LET segs == StrSplit(text)
    IN  \/ Len(segs) # 6
        \/ segs[3] \notin NewMlFolders
        \/ segs[5] \notin { FrameText(f) : f \in Frames }

(* C22: a listed key with an unexpected number of segments, folder or      *)
(* frame-code prefix makes the scan fail with a parse error: it is not     *)
(* dropped and it is not returned as an actual record.                     *)
C22_MalformedKeyStopsScan ==
    io.fn = "scanned" =>
        LET listed == SelectSeq(io.arg, EpisodePatternText)
        IN  (\E i \in 1..Len(listed) : Malformed(listed[i])) => io.res.raised

(* C23: every record the scan of the episode returns has a frame whose     *)
(* season and episode code, as decoded from its key, are the episode's: a  *)
(* listed key that decodes to another episode makes the scan fail.         *)
C23_ScannedRecordsDecodeToTheUnit ==
    (io.fn = "scanned" /\ ~io.res.raised) =>
        \A i \in 1..Len(io.res.rows) : io.res.rows[i].decoded_id = EpisodeId


(* C24: within one run the desired set is produced once: G is not drawn    *)
(* again after it is loaded, and every move and every create places its    *)
(* frame at the key the rows of G give it, the G that verification counts. *)
C24_DesiredSetProducedOnce ==
    [][/\ pc # "load" => G' = G
       /\ \A i \in 1..Len(log') : log'[i].op = "copy" => log'[i].dst \in DesiredKeys']_vars

C24_Witness ==
    /\ pc = "done" /\ outcome \in {"shape_eq", "shape_ne"}
    /\ \E i, j \in 1..Len(log) : IsMoveCopy(log[i]) /\ IsCreate(log[j])


(* C25: the plan, execute and verify phases of a run do not overlap: every *)
(* action of the plan is determined before the first store mutation, so    *)
(* the creates of the run are those that G and the first scan C determine, *)
(* and the verification scan is taken when no request is left to issue.    *)
C25_PlanBeforeFirstMutation ==
    /\ (pc \in {"cp", "verify", "done"} /\ outcome \notin NotReconciled)
          => PlanCp(G, C2) = PlanCp(G, C)
    /\ pc = "verify" => todo = <<>>


\* the position of a step in the run, last first
Rank(p) ==
    CASE p = "done" -> 0 [] p = "verify" -> 1 [] p = "cp" -> 2 [] p = "scan2" -> 3
      [] p = "mv_del" -> 4 [] p = "mv_copy" -> 5 [] p = "mv_plan" -> 6 [] p = "del" -> 7
      [] p = "scan1" -> 8 [] p = "load" -> 9

\* what is left of the run: the steps after this one, the requests of the call in
\* progress and the attempts left for the request it is at
Remaining ==
    Rank(pc) * (Cardinality(AllKeys) + 1) * MaxAttempts + Len(todo) * MaxAttempts - Attempts

(* C26: the run terminates whatever the store answers: each request is     *)
(* attempted at most MaxAttempts times and then reported, a store call in  *)
(* progress can always go on to its next request, and every step brings    *)
(* the run nearer to its end, the steps after planning being those of the  *)
(* next batch and of verification.                                         *)
C26_RunTerminates ==
    /\ [](/\ Attempts < MaxAttempts
          /\ pc \in {"del", "mv_copy", "mv_del", "cp"}
                => ENABLED (DeleteFiles \/ CopyMoved \/ DeleteMoved \/ CopyFromSrc))
    /\ [][Remaining' < Remaining /\ Remaining' >= 0]_vars

C26_Witness ==
    /\ pc = "done" /\ outcome \notin NotReconciled
    /\ Len(log) >= 2 /\ \A i \in 1..Len(log) : ~log[i].ok
    /\ io.fn = "attempt" /\ io.arg[2] = MaxAttempts - 1


\* the frames of the run whose row of the sheet has no class
NoClassFrames ==
    IF HasColumns(sheet)
    THEN { r.img_frame : r \in { x \in Range(sheet) : x.new_ml_img_class = Null } }
            \cap { r.img_frame : r \in Range(G) }
    ELSE {}

(* C27: a frame of the sheet for which no class is available has no        *)
(* desired placement: the run issues no copy for it, neither of a Move nor *)
(* of a Create, and every object of the frame that the scan finds gets a   *)
(* Delete.                                                                 *)
C27_NoClassMeansDeleteOnly ==
    outcome \notin NotReconciled =>
        \A f \in NoClassFrames :
            /\ f \notin DesiredFrames
            /\ \A i \in 1..Len(log) : log[i].op = "copy" => FrameOfRequest(log[i]) # f
            /\ DeletesIssued =>
                  \A c \in RowsOf(C, f) :
                      Cardinality(DelRequests(RenderKey(c.ml_key, c.img_frame))) = 1

C27_Witness ==
    /\ pc = "done" /\ outcome \notin NotReconciled
    /\ \E f \in NoClassFrames : RowsOf(C, f) # {}
    /\ \E i \in 1..Len(log) : log[i].op = "copy"


\* the create requests of the run for one frame
CreateRequests(f) == { i \in 1..Len(log) : IsCreate(log[i]) /\ FrameOfRequest(log[i]) = f }

(* C28: the plan of a run is made from the desired rows and the scan of    *)
(* that run only: the deletes and the moves are those G and C give, and a  *)
(* frame with a desired placement that the scan lacks gets its Create,     *)
(* also in a run that follows a run with failed requests.                  *)
C28_PlanFromThisRunOnly ==
    outcome \notin NotReconciled =>
        /\ DeletesIssued =>
              { log[i].src : i \in PhaseRequests("del", "delete") }
                  = { DelKey(r) : r \in Range(J1Del(RequireAction(MergeJ1(C, G)))) }
        /\ MovesIssued =>
              { log[i].src : i \in PhaseRequests("mv", "copy") }
                  = { MvSrcKey(r) : r \in Range(J1Mv(RequireAction(MergeJ1(C, G)))) }
        /\ RunEnded =>
              \A f \in DesiredFrames :
                  RowsOf(C, f) = {} => Cardinality(CreateRequests(f)) = 1

C28_Witness ==
    /\ Len(hist) = 2 /\ ~hist[1].clean /\ pc = "done"
    /\ \E f \in DesiredFrames : RowsOf(C, f) = {} /\ CreateRequests(f) # {}


\* the classification columns of a row whose cell is not empty, by position
NonEmptyColumns(cells) == { i \in 1..Len(cells) : ~cells[i].missing /\ cells[i].text # <<>> }

(* C29: the class of a desired record is the first non-empty value among   *)
(* the reclassification, the supervised and the unsupervised column, in    *)
(* that order, and it is absent only when all three are empty.             *)
C29_FirstNonEmptyClass ==
    io.fn = "class" =>
        LET cols == NonEmptyColumns(io.arg)
        IN  IF cols = {} THEN io.res = Null
            ELSE /\ io.res # Null
                 /\ io.res = io.arg[CHOOSE i \in cols : \A j \in cols : i <= j].text

C29_Witness ==
    /\ io.fn = "class"
    /\ NonEmptyColumns(io.arg) = {2, 3}
    /\ io.arg[1] = Cell(FALSE, <<>>)
    /\ io.arg[2].text # io.arg[3].text


\* total_files_needed = len(G)
TotalFilesNeeded == Len(G)

\* num_files_unchanged of the log lines that end a run whose final scan is not empty
NumFilesUnchanged ==
    TotalFilesNeeded - NumFilesMoved - Max({NumFilesDeleted, NumFilesCopied})

\* the frames with a desired placement that the scan finds at that placement
InPlaceFrames ==
    { f \in DesiredFrames :
        \E c \in RowsOf(C, f) : \E g \in Range(G) :
            g.img_frame = f /\ g.new_ml_key # Null /\ c.ml_key = g.new_ml_key }

(* C30: the counts the run reports agree with its actions: the count of    *)
(* unchanged files is the number of frames found at their desired          *)
(* placement and is not negative, and the counts of copied, moved and      *)
(* unchanged files add up to the number of frames with a desired placement. *)
C30_CountsAgreeWithActions ==
    (RunEnded /\ outcome \in {"shape_eq", "shape_ne"}) =>
        /\ NumFilesUnchanged = Cardinality(InPlaceFrames)
        /\ NumFilesUnchanged >= 0
        /\ NumFilesCopied + NumFilesMoved + NumFilesUnchanged = Cardinality(DesiredFrames)


(* C31: no delete of a run targets the key at which a row of G places its  *)
(* frame: the keys of the delete phase are of frames with no desired       *)
(* placement, and the source a move deletes differs from the destination   *)
(* of that move.                                                           *)
C31_NoDeleteOfADesiredKey ==
    \A i \in 1..Len(log) :
        /\ log[i].op = "delete" => log[i].src \notin DesiredKeys
        /\ (log[i].op = "delete" /\ log[i].phase = "del")
              => FrameOfRequest(log[i]) \notin DesiredFrames
        /\ (log[i].op = "copy" /\ log[i].phase = "mv") => log[i].src # log[i].dst


\* the copies from img_src of the run that place frame f at its desired key
CreatesOf(f) ==
    { i \in 1..Len(log) :
        /\ log[i].phase = "cp" /\ log[i].op = "copy"
        /\ log[i].src = ImgSrc(f)
        /\ log[i].dst \in DesiredKeys /\ FrameOfKey(log[i].dst) = f }

\* the frames whose move deleted the source after its copy had failed
LostByMove ==
    { f \in DesiredFrames :
        \E i, j \in 1..Len(log) :
            /\ i < j /\ log[i].phase = "mv" /\ log[j].phase = "mv"
            /\ log[i].op = "copy" /\ ~log[i].ok /\ FrameOfKey(log[i].dst) = f
            /\ log[j].op = "delete" /\ log[j].ok /\ log[j].src = log[i].src }

(* C32: the creates are planned from the scan C2, taken after the deletes  *)
(* and moves of the run were executed: every frame with a desired          *)
(* placement that has no object in C2, a frame whose move removed the      *)
(* source without producing the destination included, gets a copy from    *)
(* its img_src to its desired key in the same run.                         *)
C32_CreatesFromSecondScan ==
    (CopiesIssued /\ outcome \notin NotReconciled) =>
        /\ NumFilesCopied = Len(PlanCp(G, C2))
        /\ \A f \in DesiredFrames :
              RowsOf(C2, f) = {} => CreatesOf(f) # {}

C32_Witness ==
    /\ pc = "done" /\ outcome \notin NotReconciled
    /\ \E f \in LostByMove :
          RowsOf(C, f) # {} /\ RowsOf(C2, f) = {} /\ CreatesOf(f) # {}


(* C33: an error raised while an episode is reconciled ends the invocation *)
(* of process_episodes: the episodes are handled one at a time in list     *)
(* order, and no request is issued for an episode that comes after the     *)
(* one whose run raised.                                                   *)
C33_ErrorEndsTheInvocation ==
    [][ /\ (pc # "done" \/ outcome \in Raising) => OtherKeys(store') = OtherKeys(store)
        /\ io' # io => (pc = "done" /\ pc' = "done" /\ log' = log /\ store' = store) ]_vars

C33_Witness ==
    /\ pc = "done" /\ outcome = "raised" /\ log # <<>>
    /\ io = AtEpisode(1) /\ OtherKeys(store) # {}


(* C34: when the scan taken after execution finds no object of the         *)
(* episode the run raises instead of comparing the shapes, and otherwise   *)
(* it compares them; it raises also when no frame of G has a desired       *)
(* placement, so that the empty store is what the sheet asks for.          *)
C34_EmptyFinalScanRaises ==
    (RunEnded /\ outcome \notin NotReconciled) =>
        /\ outcome = "raised" <=> Len(S3FindEpisodeJpgKeys(store)) = 0
        /\ outcome # "raised" => outcome \in {"shape_eq", "shape_ne"}

C34_Witness ==
    /\ RunEnded /\ outcome = "raised"
    /\ G # <<>> /\ DesiredFrames = {}
    /\ log # <<>> /\ Clean(log)


\* the file name of a key: what follows its last "/"
RECURSIVE FileName(_)
FileName(key) ==
    IF \A i \in 1..Len(key) : key[i] # "/" THEN key ELSE FileName(Tail(key))

EndsWith(text, p) ==
    Len(p) <= Len(text) /\ SubSeq(text, Len(text) - Len(p) + 1, Len(text)) = p

\* the keys under dir/ whose file name starts with prefix and ends with suffix
MatchingKeys(keys, dir, prefix, suffix) ==
    LET d == IF dir[Len(dir)] = "/" THEN dir ELSE dir \o <<"/">>
    IN  { k \in keys :
            /\ StartsWith(k, d)
            /\ prefix = Null \/ StartsWith(FileName(k), prefix)
            /\ suffix = Null \/ EndsWith(FileName(k), suffix) }

(* C35: s3_list_files counts the keys under dir/ whose file name starts    *)
(* with prefix, when given, and ends with suffix, when given, and returns  *)
(* 0 instead of an error when nothing is listed under dir.                 *)
C35_ListCountsMatchingKeys ==
    io.fn = "listed" =>
        /\ ~io.res.raised
        /\ io.res.num_found
              = Cardinality(MatchingKeys(io.arg.keys, io.arg.dir, io.arg.prefix,
                                         io.arg.suffix))


====
